---- MODULE Spec2Model ----
(***************************************************************************)
(* deploy-info (src/index.js): a singleton DeployInfo object that shells   *)
(* out to git and reads package.json.  The model has three layers:         *)
(*   1. strings as sequences of characters, with the JavaScript string     *)
(*      operations the code uses (trim, toLowerCase, split, parseInt);     *)
(*   2. the environment: the git repository (history, branch, tag,         *)
(*      grep.patternType), package.json and the clock, and what each git   *)
(*      command line of index.js prints or how it fails;                   *)
(*   3. the methods of class DeployInfo, one operator per method, and one  *)
(*      action per public call.                                            *)
(***************************************************************************)
EXTENDS Integers, Sequences, FiniteSets, TLC

\* Bounds of the model.
MaxCommits == 2
MaxClock == 1

VARIABLES
    history,          \* the commits reachable from HEAD, most recent first
    gitWorks,         \* git is installed and the cwd is inside a work tree
    extendedRegexp,   \* git config grep.patternType=extended (default: basic)
    branch,           \* the branch HEAD is on
    tag,              \* the most recent tag reachable from HEAD, or <<>>
    pkg,              \* what package.json in the cwd is
    now,              \* the clock
    fault,            \* injected outcome of each kind of git query
    deployTime, version, gitCommit, gitCommitMessage, gitBranch, buildTime,
    deployStatus,     \* the fields of the singleton (this.*)
    call, ret,        \* the pending public call and what it returned
    loaded,           \* history variable: the environment and the snapshot at load
    assigned,         \* history variable: index.js:114 has stored a status
    override,         \* a pattern the process environment provides, or <<>>
    pc, frame,        \* getInfo() in progress: the next query and the results so far
    prev              \* history variable: the call completed before this one,
                      \* forgotten when setDeployStatus is called

envVars == <<history, gitWorks, extendedRegexp, branch, tag, pkg, now, fault>>
selfVars == <<deployTime, version, gitCommit, gitCommitMessage, gitBranch,
              buildTime, deployStatus>>
\* What only one specification each lets change.
restVars == <<override, pc, frame, prev>>
vars == <<history, gitWorks, extendedRegexp, branch, tag, pkg, now, fault,
          deployTime, version, gitCommit, gitCommitMessage, gitBranch,
          buildTime, deployStatus, call, ret, loaded, assigned,
          override, pc, frame, prev>>

----------------------------------------------------------------------------
(* Strings: sequences of one-character strings.  A token that the code     *)
(* never looks inside (a hash, a run of digits) is one element.            *)

S_success == <<"s", "u", "c", "c", "e", "s", "s">>
S_failed == <<"f", "a", "i", "l", "e", "d">>
S_unknown == <<"u", "n", "k", "n", "o", "w", "n">>
S_default_version == <<"1", ".", "0", ".", "0">>
S_no_tag == <<"n", "o", "-", "t", "a", "g">>
S_no_commit_message == <<"No commit message available">>
S_no_successful_deploy == <<"No successful deploy found">>
S_unable_to_retrieve == <<"Unable to retrieve message">>
NL == "\n"

\* The pattern between the quotes of --grep="..." (index.js:56 and six more).
PATTERN == <<"d", "e", "p", "l", "o", "y", " ", "s", "u", "c", "c", "e", "s", "s", "|", "d", "e", "p", "l", "o", "y", "m", "e", "n", "t", " ", "s", "u", "c", "c", "e", "s", "s", "f", "u", "l">>

UpperToLower == [A |-> "a", B |-> "b", C |-> "c", D |-> "d", E |-> "e", F |-> "f", G |-> "g", H |-> "h", I |-> "i", J |-> "j", K |-> "k", L |-> "l", M |-> "m", N |-> "n", O |-> "o", P |-> "p", Q |-> "q", R |-> "r", S |-> "s", T |-> "t", U |-> "u", V |-> "v", W |-> "w", X |-> "x", Y |-> "y", Z |-> "z"]

\* String.prototype.toLowerCase
toLowerCase(s) ==
    [i \in 1..Len(s) |-> IF s[i] \in DOMAIN UpperToLower THEN UpperToLower[s[i]] ELSE s[i]]

IsSpace(c) == c \in {" ", NL, "\t", "\r"}

RECURSIVE TrimStart(_)
TrimStart(s) == IF s # <<>> /\ IsSpace(Head(s)) THEN TrimStart(Tail(s)) ELSE s

RECURSIVE TrimEnd(_)
TrimEnd(s) ==
    IF s # <<>> /\ IsSpace(s[Len(s)]) THEN TrimEnd(SubSeq(s, 1, Len(s) - 1)) ELSE s

\* String.prototype.trim
trim(s) == TrimEnd(TrimStart(s))

\* s.includes(p): p occurs in s as a substring
Contains(s, p) ==
    \E i \in 0..(Len(s) - Len(p)) : SubSeq(s, i + 1, i + Len(p)) = p

\* s.split(sep) for a one-character separator: never an empty array
RECURSIVE SplitAcc(_, _, _)
SplitAcc(s, sep, cur) ==
    IF s = <<>> THEN <<cur>>
    ELSE IF Head(s) = sep THEN <<cur>> \o SplitAcc(Tail(s), sep, <<>>)
    ELSE SplitAcc(Tail(s), sep, Append(cur, Head(s)))

split(s, sep) == SplitAcc(s, sep, <<>>)

\* lines.filter(Boolean): the empty string is falsy
filterBoolean(lines) == SelectSeq(lines, LAMBDA l : l # <<>>)

RECURSIVE JoinLines(_)
JoinLines(ls) ==
    IF ls = <<>> THEN <<>>
    ELSE IF Len(ls) = 1 THEN ls[1]
    ELSE ls[1] \o <<NL>> \o JoinLines(Tail(ls))

----------------------------------------------------------------------------
(* JavaScript values.                                                      *)

Null == [t |-> "null"]
Undefined == [t |-> "undefined"]
NaN == [t |-> "NaN"]
Thrown == [t |-> "throw"]
Str(s) == [t |-> "string", v |-> s]
Num(n) == [t |-> "number", v |-> n]
IsThrown(x) == x = Thrown
\* v || d
OrElse(x, d) ==
    IF x = Null \/ x = Undefined \/ x = NaN \/ x = Str(<<>>) \/ x = Num(0) THEN d ELSE x

\* try { body } catch (_) { handler }
TryCatch(body, handler) == IF IsThrown(body) THEN handler ELSE body

----------------------------------------------------------------------------
(* Commit messages and authors the repository may hold.                    *)

MessageText == <<
    <<"d", "e", "p", "l", "o", "y", " ", "s", "u", "c", "c", "e", "s", "s", ":", " ", "v", "1">>,
    <<"D", "e", "p", "l", "o", "y", "m", "e", "n", "t", " ", "S", "u", "c", "c", "e", "s", "s", "f", "u", "l", " ", "-", " ", "h", "o", "t", "f", "i", "x">>,
    <<"d", "e", "p", "l", "o", "y", " ", "f", "a", "i", "l", "e", "d", ":", " ", "r", "o", "l", "l", "b", "a", "c", "k", " ", "n", "e", "e", "d", "e", "d">>,
    <<"c", "i", ":", " ", "d", "e", "p", "l", "o", "y", " ", "s", "u", "c", "c", "e", "s", "s", "|", "d", "e", "p", "l", "o", "y", "m", "e", "n", "t", " ", "s", "u", "c", "c", "e", "s", "s", "f", "u", "l">> >>

Messages == 1..Len(MessageText)

\* user.name is free text: the second one holds quotes and a backslash.
AuthorName == << <<"Ada">>, <<"Bob", " ", "\"", "B", "\"", " ", "\\", "o">> >>
AuthorEmail == << <<"ada@example.com">>, <<"bob@example.com">> >>
\* Who writes which message: the author of message m is MessageAuthor[m].
MessageAuthor == <<1, 2, 2, 1>>

TagName == <<"v1.0.0">>

\* Committer time of commit number n, in epoch seconds.
CommitTime(n) == 1000 + n
CommitTimes == {CommitTime(n) : n \in 1..(MaxCommits + 1)}

\* The abbreviated hash is a prefix of the full one.
ShortHash(n) == <<"c" \o ToString(n)>>
FullHash(n) == ShortHash(n) \o <<"+33hex">>

----------------------------------------------------------------------------
(* The git command lines of index.js, against the repository.  A commit is *)
(* [id, msg]; history[1] is HEAD.          Every command fails (exit 128)  *)
(* outside a work tree and in a repository that has no commit yet.         *)

Fail == [ok |-> FALSE, out |-> <<>>]
Ok(out) == [ok |-> TRUE, out |-> out]

RepoReadable == gitWorks /\ history # <<>>
HEAD == history[1]

\* The alternatives of the --grep pattern: "|" separates alternatives only in
\* an extended regular expression; git's default (basic) takes it literally.
GrepAlternatives(extended) ==
    IF extended THEN split(PATTERN, "|") ELSE <<PATTERN>>

\* --grep=<pattern> --regexp-ignore-case on one commit message
GrepMatches(text, extended) ==
    \E k \in 1..Len(GrepAlternatives(extended)) :
        Contains(toLowerCase(text), toLowerCase(GrepAlternatives(extended)[k]))

GrepTable ==
    [extended \in BOOLEAN |-> [m \in Messages |-> GrepMatches(MessageText[m], extended)]]

\* The commits git log --grep selects, most recent first.
Matching == SelectSeq(history, LAMBDA c : GrepTable[extendedRegexp][c.msg])

\* git rev-parse --short HEAD
GitRevParseShort ==
    IF RepoReadable THEN Ok(ShortHash(HEAD.id) \o <<NL>>) ELSE Fail

\* git rev-parse --abbrev-ref HEAD
GitRevParseAbbrevRef ==
    IF RepoReadable THEN Ok(branch \o <<NL>>) ELSE Fail

\* git log --grep=... --regexp-ignore-case --pretty=format:%H
\* (format: separates the entries with newlines and ends without one)
GitLogGrep ==
    IF RepoReadable
    THEN Ok(JoinLines([i \in 1..Len(Matching) |-> FullHash(Matching[i].id)]))
    ELSE Fail

\* git log -1 --grep=... : -1 limits the OUTPUT to one commit, after the
\* filter; it is the most recent matching commit, wherever it is.
GitLogGrepLast ==
    IF RepoReadable
    THEN (IF Matching = <<>> THEN Ok(<<>>) ELSE Ok(FullHash(Matching[1].id)))
    ELSE Fail

\* The commits a revision argument names.
Resolve(rev) ==
    {i \in 1..Len(history) :
        rev = FullHash(history[i].id) \/ rev = ShortHash(history[i].id)}

CommitField(c, field) ==
    CASE field = "ct" -> <<ToString(CommitTime(c.id))>>
      [] field = "s" -> MessageText[c.msg]
      [] field = "an" -> AuthorName[MessageAuthor[c.msg]]
      [] field = "ae" -> AuthorEmail[MessageAuthor[c.msg]]
      [] field = "cn" -> AuthorName[MessageAuthor[c.msg]]

\* git show -s --format=%<field> <rev>  and  git log -1 --format=%<field> <rev>
GitShowCommit(field, rev) ==
    IF RepoReadable /\ Resolve(rev) # {}
    THEN Ok(CommitField(history[CHOOSE i \in Resolve(rev) : TRUE], field) \o <<NL>>)
    ELSE Fail

\* git log -1 --format=%<field>
GitLogHead(field) ==
    IF RepoReadable THEN Ok(CommitField(HEAD, field) \o <<NL>>) ELSE Fail

\* git show --stat <rev>: header, message, one line per file, the summary
\* line, and a final newline
GitShowStat(rev) ==
    IF RepoReadable /\ Resolve(rev) # {}
    THEN LET c == history[CHOOSE i \in Resolve(rev) : TRUE]
         IN  Ok(<<"commit ">> \o FullHash(c.id) \o <<NL, "Author: ">>
                \o AuthorName[MessageAuthor[c.msg]] \o <<NL, NL, "    ">>
                \o MessageText[c.msg]
                \o <<NL, NL, " notes.txt | 1 +", NL,
                     " 1 file changed, 1 insertion(+)", NL>>)
    ELSE Fail

\* git describe --tags --abbrev=0
GitDescribe ==
    IF RepoReadable /\ tag # <<>> THEN Ok(tag \o <<NL>>) ELSE Fail

\* The kinds of query a fault can be injected into, and the outcomes.
QueryKinds == {"rev-parse", "log-grep", "log-1-grep", "show-commit",
               "log-1-ct", "log-1-field", "describe"}
FaultOutcomes == {"none", "fail", "empty", "text"}
NoFault == [k \in QueryKinds |-> "none"]
AllFail == [k \in QueryKinds |-> "fail"]

\* child_process.execSync(command, {encoding: "utf8"}): the output, or a throw.
execSync(kind, real) ==
    CASE fault[kind] = "none" -> real
      [] fault[kind] = "fail" -> Fail
      [] fault[kind] = "empty" -> Ok(<<>>)
      [] fault[kind] = "text" -> Ok(<<"n", "/", "a", NL>>)

\* execSync(...).trim()
ExecTrim(r) == IF r.ok THEN Str(trim(r.out)) ELSE Thrown

----------------------------------------------------------------------------
(* package.json and the clock.                                             *)

S_version_2 == <<"2", ".", "3", ".", "1">>
PkgObject(v) == [t |-> "object", version |-> v]
PkgStates == {
    [k |-> "absent"],
    [k |-> "unreadable"],
    [k |-> "malformed"],
    [k |-> "json", value |-> Null],
    [k |-> "json", value |-> Str(S_version_2)],
    [k |-> "json", value |-> PkgObject(Undefined)],
    [k |-> "json", value |-> PkgObject(Str(<<>>))],
    [k |-> "json", value |-> PkgObject(Str(S_version_2))] }

\* fs.existsSync(packageJsonPath)
existsSync == pkg.k # "absent"
\* JSON.parse(fs.readFileSync(packageJsonPath, "utf8")): EACCES and a syntax
\* error both throw
readPackageJson == IF pkg.k = "json" THEN pkg.value ELSE Thrown

\* Date.now() in milliseconds: later than every commit of the model.
NowMs == 2000000 + now
\* new Date(ms).toISOString() and .toLocaleString()
toISOString(ms) == Str(<<"iso:" \o ToString(ms)>>)
toLocaleString(ms) == Str(<<"locale:" \o ToString(ms)>>)

\* parseInt(s): the leading run of digits, NaN when there is none
parseInt(s) ==
    IF s # <<>> /\ \E n \in CommitTimes : ToString(n) = s[1]
    THEN Num(CHOOSE n \in CommitTimes : ToString(n) = s[1])
    ELSE NaN

\* new Date(parseInt(timestamp) * 1000).toISOString(): RangeError on NaN
DateOfTimestamp(ts) ==
    IF parseInt(ts) = NaN THEN Thrown ELSE toISOString(parseInt(ts).v * 1000)

----------------------------------------------------------------------------
(* class DeployInfo: one operator per method.  A method evaluates to the   *)
(* value it returns, or to Thrown when an exception leaves it.             *)

\* packageJson.version: undefined on a value that has no such property
VersionOf(packageJson) ==
    IF packageJson.t = "object" THEN packageJson.version ELSE Undefined

\* Mutant: the `|| "1.0.0"` of index.js:24 is missing.
getVersion_NoFallback ==
    LET tried ==
            IF existsSync
            THEN (IF IsThrown(readPackageJson) THEN Thrown
                  ELSE IF readPackageJson = Null THEN Thrown
                  ELSE VersionOf(readPackageJson))
            ELSE Str(S_default_version)
    IN  IF IsThrown(tried) THEN Str(S_default_version) ELSE tried

getVersion ==
    LET tried ==
            IF existsSync
            THEN (IF IsThrown(readPackageJson) THEN Thrown
                  ELSE IF readPackageJson = Null THEN Thrown  \* TypeError
                  ELSE OrElse(VersionOf(readPackageJson), Str(S_default_version)))
            ELSE Undefined
    IN  IF IsThrown(tried) \/ tried = Undefined
        THEN Str(S_default_version) ELSE tried

getGitCommit ==
    TryCatch(ExecTrim(execSync("rev-parse", GitRevParseShort)), Str(S_unknown))

getGitBranch ==
    TryCatch(ExecTrim(execSync("rev-parse", GitRevParseAbbrevRef)), Str(S_unknown))

\* Mutant: the .filter(Boolean) is missing, so empty output counts one line.
getDeployCountFromGitBody_NoFilter ==
    LET r == execSync("log-grep", GitLogGrep)
    IN  IF r.ok THEN Num(Len(split(r.out, NL))) ELSE Thrown

\* Mutant: the --grep option is missing, so every commit is counted.
getDeployCountFromGitBody_CountsAll ==
    LET r == execSync("log-grep",
                      IF RepoReadable
                      THEN Ok(JoinLines([i \in 1..Len(history) |-> FullHash(history[i].id)]))
                      ELSE Fail)
    IN  IF r.ok THEN Num(Len(filterBoolean(split(r.out, NL)))) ELSE Thrown

getDeployCountFromGitBody ==
    LET r == execSync("log-grep", GitLogGrep)
    IN  IF r.ok THEN Num(Len(filterBoolean(split(r.out, NL)))) ELSE Thrown

getDeployCountFromGit == TryCatch(getDeployCountFromGitBody, Num(0))

\* Mutant: the properties are left undefined instead of set to null.
NoLastSuccess_Undefined == [t |-> "object", commit |-> Undefined, time |-> Undefined]

NoLastSuccess == [t |-> "object", commit |-> Null, time |-> Null]

getLastSuccessfulFromGitBody ==
    LET commit == ExecTrim(execSync("log-1-grep", GitLogGrepLast))
    IN  IF IsThrown(commit) THEN Thrown
        ELSE IF commit.v = <<>> THEN NoLastSuccess
        ELSE LET timestamp ==
                     ExecTrim(execSync("show-commit", GitShowCommit("ct", commit.v)))
             IN  IF IsThrown(timestamp) THEN Thrown
                 ELSE IF IsThrown(DateOfTimestamp(timestamp.v)) THEN Thrown
                 ELSE [t |-> "object", commit |-> commit,
                       time |-> DateOfTimestamp(timestamp.v)]

\* Mutant: the catch reports the commit as "unknown", like the other sentinels.
getLastSuccessfulFromGit_CatchUnknown ==
    TryCatch(getLastSuccessfulFromGitBody,
             [t |-> "object", commit |-> Str(S_unknown), time |-> Null])

getLastSuccessfulFromGit == TryCatch(getLastSuccessfulFromGitBody, NoLastSuccess)

\* The shape shared by getLastSuccessfulCommitMessage / AuthorName / AuthorEmail:
\* find the commit, return `none` when there is none, else print one field.
LastSuccessfulField(field, none) ==
    LET commit == ExecTrim(execSync("log-1-grep", GitLogGrepLast))
    IN  IF IsThrown(commit) THEN Thrown
        ELSE IF commit.v = <<>> THEN none
        ELSE ExecTrim(execSync("show-commit", GitShowCommit(field, commit.v)))

getLastSuccessfulCommitMessage ==
    TryCatch(LastSuccessfulField("s", Str(S_no_successful_deploy)),
             Str(S_unable_to_retrieve))

\* Mutant: no matching commit is reported as "unknown" instead of "failed".
getDeployStatusBody_UnknownWhenNoMatch ==
    LET matches == ExecTrim(execSync("log-1-grep", GitLogGrepLast))
    IN  IF IsThrown(matches) THEN Thrown
        ELSE IF matches.v # <<>> THEN Str(S_success)
        ELSE Str(S_unknown)

getDeployStatusBody ==
    LET matches == ExecTrim(execSync("log-1-grep", GitLogGrepLast))
    IN  IF IsThrown(matches) THEN Thrown
        ELSE IF matches.v # <<>> THEN Str(S_success)
        ELSE Str(S_failed)

getDeployStatus == TryCatch(getDeployStatusBody, Str(S_unknown))

\* String(status || "")
StringOf(status) ==
    LET x == OrElse(status, Str(<<>>))
    IN  IF x.t = "string" THEN x.v ELSE <<ToString(x.v)>>

normalized(status) == toLowerCase(trim(StringOf(status)))

\* Mutant: the test against the three recognised words is missing.
setDeployStatus_StoreAny(status) ==
    IF normalized(status) # <<>> THEN Str(normalized(status)) ELSE deployStatus

\* Mutant: the argument is not trimmed.
setDeployStatus_NoTrim(status) ==
    IF toLowerCase(StringOf(status)) \in {S_success, S_failed, S_unknown}
    THEN Str(toLowerCase(StringOf(status)))
    ELSE deployStatus

\* this.deployStatus after setDeployStatus(status); it is also what is returned
setDeployStatus(status) ==
    IF normalized(status) \in {S_success, S_failed, S_unknown}
    THEN Str(normalized(status))
    ELSE deployStatus

getGitLastCommitDateBody ==
    LET timestamp == ExecTrim(execSync("log-1-ct", GitLogHead("ct")))
    IN  IF IsThrown(timestamp) THEN Thrown ELSE DateOfTimestamp(timestamp.v)

\* Mutant: the try/catch of getGitLastCommitDate is missing.
getGitLastCommitDate_NoCatch == getGitLastCommitDateBody

\* Mutant: the date is the one captured at load instead of a fresh query.
getGitLastCommitDate_AlwaysDeployTime == deployTime

\* Mutant: the catch returns the present time instead of the stored one.
getGitLastCommitDate_CatchNow ==
    TryCatch(getGitLastCommitDateBody, toISOString(NowMs))

getGitLastCommitDate == TryCatch(getGitLastCommitDateBody, deployTime)

getGitLastCommitMessage ==
    TryCatch(ExecTrim(execSync("log-1-field", GitLogHead("s"))),
             Str(S_no_commit_message))

getGitAuthorName ==
    TryCatch(ExecTrim(execSync("log-1-field", GitLogHead("an"))), Str(S_unknown))

getGitAuthorEmail ==
    TryCatch(ExecTrim(execSync("log-1-field", GitLogHead("ae"))), Str(S_unknown))

getGitCommitterName ==
    TryCatch(ExecTrim(execSync("log-1-field", GitLogHead("cn"))), Str(S_unknown))

getLastSuccessfulAuthorName ==
    TryCatch(LastSuccessfulField("an", Str(S_unknown)), Str(S_unknown))

getLastSuccessfulAuthorEmail ==
    TryCatch(LastSuccessfulField("ae", Str(S_unknown)), Str(S_unknown))

\* Mutant: a missing tag is reported as "unknown".
getGitTag_CatchUnknown ==
    TryCatch(ExecTrim(execSync("describe", GitDescribe)), Str(S_unknown))

getGitTag == TryCatch(ExecTrim(execSync("describe", GitDescribe)), Str(S_no_tag))

NoStats ==
    [t |-> "object", filesChanged |-> Num(0), insertions |-> Num(0),
     deletions |-> Num(0)]

getDeployCommitStatsBody ==
    LET commit == ExecTrim(execSync("log-1-grep", GitLogGrepLast))
    IN  IF IsThrown(commit) THEN Thrown
        ELSE IF commit.v = <<>> THEN NoStats
        ELSE LET stats == execSync("show-commit", GitShowStat(commit.v))
                 lines == split(stats.out, NL)
                 \* lines[lines.length - 2] || ""
                 lastLine == IF Len(lines) >= 2 THEN lines[Len(lines) - 1] ELSE <<>>
             IN  IF ~stats.ok THEN Thrown
                 ELSE [t |-> "object", raw |-> Str(lastLine), commit |-> commit]

getDeployCommitStats == TryCatch(getDeployCommitStatsBody, NoStats)

\* String.prototype.toUpperCase
toUpperCase(s) ==
    [i \in 1..Len(s) |->
        IF \E u \in DOMAIN UpperToLower : UpperToLower[u] = s[i]
        THEN CHOOSE u \in DOMAIN UpperToLower : UpperToLower[u] = s[i]
        ELSE s[i]]

\* `${x}` in a template literal
Template(x) ==
    CASE x.t = "string" -> x.v
      [] x.t = "number" -> <<ToString(x.v)>>
      [] OTHER -> <<x.t>>

\* The property getters (get latest_time() ... get latest_tag()).
Getters == {"latest_time", "latest_deploy_time", "app_version", "commit", "branch",
            "build_time", "status", "deploy_count", "last_success_commit",
            "last_success_time", "last_success_message", "author_name",
            "author_email", "committer_name", "last_success_author",
            "last_success_author_email", "latest_tag"}

get_latest_deploy_time == deployTime
\* Mutant: the getter reads package.json again instead of the stored field.
get_app_version_Reread == getVersion

get_app_version == version
get_commit == gitCommit
\* Mutant: the getter returns the wrong field.
get_branch_ReturnsCommit == gitCommit

get_branch == gitBranch
get_build_time == buildTime
\* Mutant: the getter asks git again instead of reading the stored field.
get_status_Recompute == getDeployStatus

get_status == deployStatus

Getter(g) ==
    CASE g = "latest_time" -> getGitLastCommitDate
      [] g = "latest_deploy_time" -> get_latest_deploy_time
      [] g = "app_version" -> get_app_version
      [] g = "commit" -> get_commit
      [] g = "branch" -> get_branch
      [] g = "build_time" -> get_build_time
      [] g = "status" -> get_status
      [] g = "deploy_count" -> getDeployCountFromGit
      [] g = "last_success_commit" ->
            IF IsThrown(getLastSuccessfulFromGit) THEN Thrown
            ELSE OrElse(getLastSuccessfulFromGit.commit, Str(S_unknown))
      [] g = "last_success_time" ->
            IF IsThrown(getLastSuccessfulFromGit) THEN Thrown
            ELSE OrElse(getLastSuccessfulFromGit.time, Null)
      [] g = "last_success_message" -> getLastSuccessfulCommitMessage
      [] g = "author_name" -> getGitAuthorName
      [] g = "author_email" -> getGitAuthorEmail
      [] g = "committer_name" -> getGitCommitterName
      [] g = "last_success_author" -> getLastSuccessfulAuthorName
      [] g = "last_success_author_email" -> getLastSuccessfulAuthorEmail
      [] g = "latest_tag" -> getGitTag

\* The methods that no getter simply forwards to.
Methods == {"getVersion", "getGitCommit", "getGitBranch", "getDeployStatus",
            "getLastSuccessfulFromGit", "getGitLastCommitMessage",
            "getDeployCommitStats"}

Method(m) ==
    CASE m = "getVersion" -> getVersion
      [] m = "getGitCommit" -> getGitCommit
      [] m = "getGitBranch" -> getGitBranch
      [] m = "getDeployStatus" -> getDeployStatus
      [] m = "getLastSuccessfulFromGit" -> getLastSuccessfulFromGit
      [] m = "getGitLastCommitMessage" -> getGitLastCommitMessage
      [] m = "getDeployCommitStats" -> getDeployCommitStats

\* What getInfo() evaluates, in its order of evaluation.
getInfoCalls ==
    <<getLastSuccessfulFromGit, getDeployCountFromGit, getGitLastCommitDate,
      getGitLastCommitMessage, getGitAuthorName, getGitAuthorEmail,
      getGitCommitterName, getLastSuccessfulCommitMessage,
      getLastSuccessfulAuthorName, getLastSuccessfulAuthorEmail, getGitTag>>

\* Mutant: getInfo() asks git for the status instead of reading the field.
InfoRecord_FreshStatus(r) ==
    [t |-> "object",
     version |-> version,
     deployTime |-> deployTime,
     buildTime |-> buildTime,
     deployStatus |-> getDeployStatus,
     deployCount |-> r[2],
     git |->
        [currentCommit |->
            [hash |-> gitCommit,
             branch |-> gitBranch,
             date |-> r[3],
             message |-> r[4],
             author |-> [name |-> r[5], email |-> r[6]],
             committer |-> r[7]],
         lastSuccessfulDeploy |->
            [commit |-> r[1].commit,
             time |-> r[1].time,
             message |-> r[8],
             author |-> [name |-> r[9], email |-> r[10]]],
         latestTag |-> r[11]]]

\* The object literal of getInfo() over the results r of its eleven calls.
InfoRecord(r) ==
    [t |-> "object",
     version |-> version,
     deployTime |-> deployTime,
     buildTime |-> buildTime,
     deployStatus |-> deployStatus,
     deployCount |-> r[2],
     git |->
        [currentCommit |->
            [hash |-> gitCommit,
             branch |-> gitBranch,
             date |-> r[3],
             message |-> r[4],
             author |-> [name |-> r[5], email |-> r[6]],
             committer |-> r[7]],
         lastSuccessfulDeploy |->
            [commit |-> r[1].commit,
             time |-> r[1].time,
             message |-> r[8],
             author |-> [name |-> r[9], email |-> r[10]]],
         latestTag |-> r[11]]]

getInfoRecord == InfoRecord(getInfoCalls)

getInfo ==
    IF \E i \in 1..Len(getInfoCalls) : IsThrown(getInfoCalls[i]) THEN Thrown
    ELSE getInfoRecord

\* The report: one entry per line of the template, as <<label, text>>.
toStringOf(info) ==
    LET current == info.git.currentCommit
        lastDeploy == info.git.lastSuccessfulDeploy
    IN  IF info.deployStatus.t # "string" THEN Thrown  \* TypeError
        ELSE
        [t |-> "string",
         v |-> <<
            <<"Version", Template(info.version)>>,
            <<"Status", toUpperCase(info.deployStatus.v)>>,
            <<"Deploy Count", Template(info.deployCount)>>,
            <<"Build Time", Template(info.buildTime)>>,
            <<"Hash", Template(current.hash)>>,
            <<"Branch", Template(current.branch)>>,
            <<"Author", Template(current.author.name) \o <<" ", "<">>
                        \o Template(current.author.email) \o <<">">> >>,
            <<"Date", Template(current.date)>>,
            <<"Message", Template(current.message)>>,
            <<"Commit", Template(OrElse(lastDeploy.commit, Str(<<"-">>)))>>,
            <<"Author", Template(OrElse(lastDeploy.author.name, Str(<<"-">>)))
                        \o <<" ", "<">>
                        \o Template(OrElse(lastDeploy.author.email, Str(<<"-">>)))
                        \o <<">">> >>,
            <<"Time", Template(OrElse(lastDeploy.time, Str(<<"-">>)))>>,
            <<"Message", Template(OrElse(lastDeploy.message, Str(<<"-">>)))>>,
            <<"Latest Tag", Template(info.git.latestTag)>> >>]

toString == IF IsThrown(getInfo) THEN Thrown ELSE toStringOf(getInfo)

\* Arguments a caller passes to setDeployStatus.
StatusArgs == {Null, Undefined, Num(0), Str(<<>>),
               Str(<<" ", "S", "u", "c", "c", "e", "s", "s", " ">>),
               Str(<<"F", "A", "I", "L", "E", "D">>),
               Str(S_unknown),
               Str(<<"d", "o", "n", "e">>)}

----------------------------------------------------------------------------
(* The command strings passed to execSync.                                 *)

CmdRevParseShort == <<"git rev-parse --short HEAD">>
CmdRevParseAbbrevRef == <<"git rev-parse --abbrev-ref HEAD">>
CmdLogGrep ==
    <<"git log --grep=\"">> \o PATTERN
        \o <<"\" --regexp-ignore-case --pretty=format:%H">>
CmdLogGrepLast ==
    <<"git log -1 --grep=\"">> \o PATTERN
        \o <<"\" --regexp-ignore-case --pretty=format:%H">>
CmdLogHead(field) == <<"git log -1 --format=%" \o field>>
CmdDescribe == <<"git describe --tags --abbrev=0">>
\* The literal parts of the templates that end in ${commit}.
CmdShowCt == <<"git show -s --format=%ct ">>
CmdLogRev(field) == <<"git log -1 --format=%" \o field \o " ">>
CmdShowStat == <<"git show --stat ">>

\* Mutant: the template interpolates the hash stored at load (this.gitCommit).
LookupCommands_StoredCommit(template) ==
    LET commit == ExecTrim(execSync("log-1-grep", GitLogGrepLast))
    IN  IF IsThrown(commit) \/ commit.v = <<>> THEN <<CmdLogGrepLast>>
        ELSE <<CmdLogGrepLast, template \o gitCommit.v>>

\* The commands of a method that finds the last successful commit and then
\* runs `${template}${commit}` (index.js:68-73, 83-88, 164-169, 177-182,
\* 198-203).
LookupCommands(template) ==
    LET commit == ExecTrim(execSync("log-1-grep", GitLogGrepLast))
    IN  IF IsThrown(commit) \/ commit.v = <<>> THEN <<CmdLogGrepLast>>
        ELSE <<CmdLogGrepLast, template \o commit.v>>

\* The commands getInfo() passes to execSync, in order.
getInfoCommands ==
    LookupCommands(CmdShowCt) \o <<CmdLogGrep>> \o <<CmdLogHead("ct")>>
        \o <<CmdLogHead("s")>> \o <<CmdLogHead("an")>> \o <<CmdLogHead("ae")>>
        \o <<CmdLogHead("cn")>> \o LookupCommands(CmdLogRev("s"))
        \o LookupCommands(CmdLogRev("an")) \o LookupCommands(CmdLogRev("ae"))
        \o <<CmdDescribe>>

\* The commands a public call passes to execSync, in order.
Commands(op) ==
    CASE op = "getGitCommit" -> <<CmdRevParseShort>>
      [] op = "getGitBranch" -> <<CmdRevParseAbbrevRef>>
      [] op = "deploy_count" -> <<CmdLogGrep>>
      [] op = "getDeployStatus" -> <<CmdLogGrepLast>>
      [] op \in {"getLastSuccessfulFromGit", "last_success_commit",
                 "last_success_time"} -> LookupCommands(CmdShowCt)
      [] op = "last_success_message" -> LookupCommands(CmdLogRev("s"))
      [] op = "last_success_author" -> LookupCommands(CmdLogRev("an"))
      [] op = "last_success_author_email" -> LookupCommands(CmdLogRev("ae"))
      [] op = "getDeployCommitStats" -> LookupCommands(CmdShowStat)
      [] op = "latest_time" -> <<CmdLogHead("ct")>>
      [] op = "getGitLastCommitMessage" -> <<CmdLogHead("s")>>
      [] op = "author_name" -> <<CmdLogHead("an")>>
      [] op = "author_email" -> <<CmdLogHead("ae")>>
      [] op = "committer_name" -> <<CmdLogHead("cn")>>
      [] op = "latest_tag" -> <<CmdDescribe>>
      [] op \in {"getInfo", "toString"} -> getInfoCommands
      [] OTHER -> <<>>

----------------------------------------------------------------------------
(* JSON text of a value, as a caller of getInfo() writes and reads it      *)
(* (JSON.stringify(info), res.json(deployInfo.getInfo())).  An object is a *)
(* record; the outermost one carries the tag t = "object".                 *)

IsObject(x) == "t" \notin DOMAIN x \/ x.t = "object"

\* The property names of the records of getInfo(), in the order of the
\* object literal.
KeyOrder == <<"version", "deployTime", "buildTime", "deployStatus", "deployCount",
              "git", "currentCommit", "hash", "branch", "date", "commit", "time",
              "message", "author", "name", "email", "committer",
              "lastSuccessfulDeploy", "latestTag">>

\* Object.keys(x) without the properties JSON.stringify leaves out
OwnKeys(x) ==
    SelectSeq(KeyOrder, LAMBDA k : k \in DOMAIN x /\ x[k] # Undefined)

\* The characters of a string between its quotes
RECURSIVE Escape(_)
Escape(s) ==
    IF s = <<>> THEN <<>>
    ELSE (CASE Head(s) = "\"" -> <<"\\", "\"">>
            [] Head(s) = "\\" -> <<"\\", "\\">>
            [] Head(s) = NL -> <<"\\", "n">>
            [] OTHER -> <<Head(s)>>) \o Escape(Tail(s))

RECURSIVE JSONstringify(_)
RECURSIVE StringifyMembers(_, _)

\* "key":value,"key":value
StringifyMembers(x, keys) ==
    IF keys = <<>> THEN <<>>
    ELSE <<"\"", Head(keys), "\"", ":">> \o JSONstringify(x[Head(keys)])
         \o (IF Len(keys) > 1 THEN <<",">> ELSE <<>>)
         \o StringifyMembers(x, Tail(keys))

\* JSON.stringify(x)
JSONstringify(x) ==
    IF IsObject(x) THEN <<"{">> \o StringifyMembers(x, OwnKeys(x)) \o <<"}">>
    ELSE CASE x.t = "string" -> <<"\"">> \o Escape(x.v) \o <<"\"">>
           [] x.t = "number" -> <<ToString(x.v)>>
           [] OTHER -> <<"null">>

\* The numbers a record can hold.
Counts == 0..(MaxCommits + 1)

RECURSIVE ParseString(_, _)
\* s starts after the opening quote; the result is the text and what follows
\* the closing quote
ParseString(s, acc) ==
    IF Head(s) = "\"" THEN [v |-> acc, rest |-> Tail(s)]
    ELSE IF Head(s) = "\\"
    THEN ParseString(Tail(Tail(s)),
                     Append(acc, IF s[2] = "n" THEN NL ELSE s[2]))
    ELSE ParseString(Tail(s), Append(acc, Head(s)))

RECURSIVE ParseValue(_)
RECURSIVE ParseMembers(_, _)

\* s starts after "{" or after a member; obj holds the members read so far
ParseMembers(s, obj) ==
    IF Head(s) = "}" THEN [v |-> obj, rest |-> Tail(s)]
    ELSE IF Head(s) = "," THEN ParseMembers(Tail(s), obj)
    ELSE LET key == ParseString(Tail(s), <<>>)
             val == ParseValue(Tail(key.rest))
         IN  ParseMembers(val.rest, (key.v[1] :> val.v) @@ obj)

ParseValue(s) ==
    IF Head(s) = "\"" THEN
        LET str == ParseString(Tail(s), <<>>)
        IN  [v |-> Str(str.v), rest |-> str.rest]
    ELSE IF Head(s) = "{" THEN ParseMembers(Tail(s), <<>>)
    ELSE IF Head(s) = "null" THEN [v |-> Null, rest |-> Tail(s)]
    ELSE [v |-> Num(CHOOSE n \in Counts : ToString(n) = Head(s)), rest |-> Tail(s)]

\* JSON.parse(text)
JSONparse(text) == ParseValue(text).v

----------------------------------------------------------------------------
(* Construction (index.js:347, new DeployInfo()) and the public calls.     *)

\* The state right after `require`: the constructor has run in the
\* environment the other variables describe.
Constructed ==
    /\ deployTime = toISOString(NowMs)
    /\ version = getVersion
    /\ gitCommit = getGitCommit
    /\ gitCommitMessage = getGitLastCommitMessage
    /\ gitBranch = getGitBranch
    /\ buildTime = toLocaleString(NowMs)
    /\ deployStatus = getDeployStatus
    /\ call = "none"
    /\ ret = Undefined
    /\ loaded = [readable |-> RepoReadable, history |-> history, branch |-> branch,
                 deployTime |-> deployTime, version |-> version,
                 buildTime |-> buildTime]
    /\ assigned = FALSE
    /\ pc = 0
    /\ frame = <<>>
    /\ prev = [call |-> "none", ret |-> Undefined]

Commit1(m) == [id |-> 1, msg |-> m]
ValidPackageJson == [k |-> "json", value |-> PkgObject(Str(S_version_2))]

\* A change of the environment: what the last call returned describes the
\* environment as it was, so it is no longer held as the current observation.
Unobserved == call' = "none" /\ ret' = Undefined

\* Module load in a directory whose repository holds at most one commit.
Init ==
    /\ gitWorks \in BOOLEAN
    /\ history \in {<<>>} \cup (IF gitWorks THEN {<<Commit1(m)>> : m \in Messages} ELSE {})
    /\ extendedRegexp \in BOOLEAN
    /\ branch = <<"main">>
    /\ tag = <<>>
    /\ pkg = ValidPackageJson
    /\ now = 0
    /\ fault = NoFault
    /\ override = <<>>
    /\ Constructed

\* Module load with any package.json, in a repository that has no commit yet.
InitHost ==
    /\ gitWorks = TRUE
    /\ history = <<>>
    /\ extendedRegexp = FALSE
    /\ branch = <<"main">>
    /\ tag = <<>>
    /\ pkg \in PkgStates
    /\ now = 0
    /\ fault = NoFault
    /\ override = <<>>
    /\ Constructed

\* The outcomes that can be injected into each kind of query: non-numeric text
\* matters where a timestamp is expected.
Faults ==
    {f \in [QueryKinds -> FaultOutcomes] :
        \A k \in QueryKinds : f[k] = "text" => k \in {"show-commit", "log-1-ct"}}

\* Module load with faulty queries, in a repository of two commits, the older
\* one a deploy.
InitFault ==
    /\ gitWorks = TRUE
    /\ history = <<[id |-> 2, msg |-> 3], [id |-> 1, msg |-> 4]>>
    /\ extendedRegexp = FALSE
    /\ branch = <<"main">>
    /\ tag = TagName
    /\ \/ pkg = ValidPackageJson /\ fault \in Faults
       \/ pkg \in PkgStates /\ fault \in {NoFault, AllFail}
    /\ now = 0
    /\ override = <<>>
    /\ Constructed

\* git commit -m <message>
Commit(m) ==
    /\ gitWorks
    /\ Len(history) < MaxCommits
    /\ history' = <<[id |-> Len(history) + 1, msg |-> m]>> \o history
    /\ UNCHANGED <<gitWorks, extendedRegexp, branch, tag, pkg, now, fault>>
    /\ UNCHANGED <<selfVars, loaded, assigned, restVars>>
    /\ Unobserved

\* git checkout -b dev
Checkout ==
    /\ RepoReadable
    /\ branch = <<"main">>
    /\ branch' = <<"dev">>
    /\ UNCHANGED <<history, gitWorks, extendedRegexp, tag, pkg, now, fault>>
    /\ UNCHANGED <<selfVars, loaded, assigned, restVars>>
    /\ Unobserved

\* git tag v1.0.0
CreateTag ==
    /\ RepoReadable
    /\ tag = <<>>
    /\ tag' = TagName
    /\ UNCHANGED <<history, gitWorks, extendedRegexp, branch, pkg, now, fault>>
    /\ UNCHANGED <<selfVars, loaded, assigned, restVars>>
    /\ Unobserved

\* git disappears from the PATH, or .git is no longer found from the cwd
GitBreaks ==
    /\ gitWorks
    /\ gitWorks' = FALSE
    /\ UNCHANGED <<history, extendedRegexp, branch, tag, pkg, now, fault>>
    /\ UNCHANGED <<selfVars, loaded, assigned, restVars>>
    /\ Unobserved

\* package.json is rewritten, removed or damaged
WritePackageJson(p) ==
    /\ p # pkg
    /\ pkg' = p
    /\ UNCHANGED <<history, gitWorks, extendedRegexp, branch, tag, now, fault>>
    /\ UNCHANGED <<selfVars, loaded, assigned, restVars>>
    /\ Unobserved

\* time passes
Tick ==
    /\ now < MaxClock
    /\ now' = now + 1
    /\ UNCHANGED <<history, gitWorks, extendedRegexp, branch, tag, pkg, fault>>
    /\ UNCHANGED <<selfVars, loaded, assigned, restVars>>
    /\ Unobserved

\* deployInfo.<getter>
ReadGetter(g) ==
    /\ call = "none"
    /\ call' = g
    /\ ret' = Getter(g)
    /\ UNCHANGED <<envVars, selfVars, loaded, assigned, restVars>>

\* deployInfo.<method>()
CallMethod(m) ==
    /\ call = "none"
    /\ call' = m
    /\ ret' = Method(m)
    /\ UNCHANGED <<envVars, selfVars, loaded, assigned, restVars>>

\* deployInfo.getInfo()
GetInfo ==
    /\ call = "none"
    /\ call' = "getInfo"
    /\ ret' = getInfo
    /\ UNCHANGED <<envVars, selfVars, loaded, assigned, restVars>>

\* deployInfo.toString()
ToString_ ==
    /\ call = "none"
    /\ call' = "toString"
    /\ ret' = toString
    /\ UNCHANGED <<envVars, selfVars, loaded, assigned, restVars>>

\* deployInfo.setDeployStatus(status)
SetDeployStatus(status) ==
    /\ call = "none"
    /\ call' = "setDeployStatus"
    /\ deployStatus' = setDeployStatus(status)
    /\ ret' = setDeployStatus(status)
    /\ assigned' = (assigned \/ normalized(status) \in {S_success, S_failed, S_unknown})
    /\ prev' = [call |-> "none", ret |-> Undefined]
    /\ UNCHANGED <<envVars, deployTime, version, gitCommit, gitCommitMessage,
                   gitBranch, buildTime, loaded, override, pc, frame>>

\* The caller has consumed the returned value and goes on.
Resume ==
    /\ call # "none"
    /\ Unobserved
    /\ UNCHANGED <<envVars, selfVars, loaded, assigned, restVars>>

RepoChanges ==
    \/ \E m \in Messages : Commit(m)
    \/ Checkout
    \/ CreateTag
    \/ GitBreaks

Calls ==
    \/ \E g \in Getters : ReadGetter(g)
    \/ \E m \in Methods : CallMethod(m)
    \/ GetInfo
    \/ ToString_
    \/ \E status \in StatusArgs : SetDeployStatus(status)
    \/ Resume

HostChanges ==
    \/ \E p \in PkgStates : WritePackageJson(p)
    \/ Tick

Next == RepoChanges \/ Calls

\* The repository changes under the loaded module.
Spec == Init /\ [][Next]_vars

NextHost ==
    \/ \E m \in Messages : Commit(m)
    \/ GitBreaks
    \/ HostChanges
    \/ Calls

\* package.json, the clock and the repository change under the loaded module.
SpecHost == InitHost /\ [][NextHost]_vars

\* Every query may fail or print something unexpected.
SpecFault == InitFault /\ [][Calls]_vars

\* What the process environment may provide as a pattern: nothing, blanks,
\* or a word.  No line of index.js reads the environment.
S_rollback == <<"r", "o", "l", "l", "b", "a", "c", "k">>
OverrideValues == {<<>>, <<" ", " ">>, S_rollback}

\* Module load with a pattern in the environment, in a repository of two
\* commits: "deploy failed: rollback needed" over "deploy success: v1".
InitOverride ==
    /\ gitWorks = TRUE
    /\ history = <<[id |-> 2, msg |-> 3], [id |-> 1, msg |-> 1]>>
    /\ extendedRegexp \in BOOLEAN
    /\ branch = <<"main">>
    /\ tag = <<>>
    /\ pkg = ValidPackageJson
    /\ now = 0
    /\ fault = NoFault
    /\ override \in OverrideValues
    /\ Constructed

\* The module in use with a pattern in the environment.
SpecOverride == InitOverride /\ [][Calls]_vars

\* The caller keeps the returned value and goes on.
ResumeRemember ==
    /\ call # "none"
    /\ prev' = [call |-> call, ret |-> ret]
    /\ Unobserved
    /\ UNCHANGED <<envVars, selfVars, loaded, assigned, override, pc, frame>>

NextRepeat ==
    \/ \E g \in Getters : ReadGetter(g)
    \/ \E m \in Methods : CallMethod(m)
    \/ GetInfo
    \/ ToString_
    \/ \E status \in StatusArgs : SetDeployStatus(status)
    \/ ResumeRemember
    \/ Tick

\* Calls repeated on a repository that does not change, while time passes.
SpecRepeat == Init /\ [][NextRepeat]_vars

\* getInfo() one call at a time.  execSync blocks the caller's process, not
\* the others: a commit can land between any two of the eleven calls.  (One
\* between the two queries of a single call changes nothing, the second
\* query reads the commit the first one named.)

\* index.js:283, getInfo() is entered
GetInfoBegin ==
    /\ call = "none"
    /\ pc = 0
    /\ pc' = 1
    /\ frame' = <<>>
    /\ UNCHANGED <<envVars, selfVars, call, ret, loaded, assigned, override, prev>>

\* the next call of index.js:284-312 runs against the repository as it is now
GetInfoStep ==
    /\ pc \in 1..Len(getInfoCalls)
    /\ frame' = Append(frame, getInfoCalls[pc])
    /\ pc' = pc + 1
    /\ UNCHANGED <<envVars, selfVars, call, ret, loaded, assigned, override, prev>>

\* the object literal is complete and returned
GetInfoReturn ==
    /\ pc = Len(getInfoCalls) + 1
    /\ call' = "getInfo"
    /\ ret' = (IF \E i \in 1..Len(frame) : IsThrown(frame[i]) THEN Thrown
               ELSE InfoRecord(frame))
    /\ pc' = 0
    /\ frame' = <<>>
    /\ UNCHANGED <<envVars, selfVars, loaded, assigned, override, prev>>

\* git commit -m <message> by another process, while getInfo() is running
ConcurrentCommit(m) ==
    /\ pc > 0
    /\ gitWorks
    /\ Len(history) < MaxCommits
    /\ history' = <<[id |-> Len(history) + 1, msg |-> m]>> \o history
    /\ UNCHANGED <<gitWorks, extendedRegexp, branch, tag, pkg, now, fault>>
    /\ UNCHANGED <<selfVars, call, ret, loaded, assigned, restVars>>

NextConc ==
    \/ GetInfoBegin
    \/ GetInfoStep
    \/ GetInfoReturn
    \/ \E m \in Messages : ConcurrentCommit(m)
    \/ Resume

\* Other processes commit while getInfo() runs.
SpecConc == Init /\ [][NextConc]_vars

----------------------------------------------------------------------------
(* The claims.  What a claim calls a qualifying commit is stated here from *)
(* the claim's words, not from what git selects.                           *)

S_deploy_success == <<"d", "e", "p", "l", "o", "y", " ", "s", "u", "c", "c", "e", "s", "s">>
S_deployment_successful == <<"d", "e", "p", "l", "o", "y", "m", "e", "n", "t", " ", "s", "u", "c", "c", "e", "s", "s", "f", "u", "l">>

\* The message contains "deploy success" or "deployment successful",
\* compared case-insensitively.
Qualifies(m) ==
    \/ Contains(toLowerCase(MessageText[m]), S_deploy_success)
    \/ Contains(toLowerCase(MessageText[m]), S_deployment_successful)

QualifiesTable == [m \in Messages |-> Qualifies(m)]
Qualifying == SelectSeq(history, LAMBDA c : QualifiesTable[c.msg])

IsoOfCommit(c) == toISOString(CommitTime(c.id) * 1000)
LastDeploy == ret.git.lastSuccessfulDeploy
Current == ret.git.currentCommit

\* C1: with a readable history, deploy_count and getInfo().deployCount are the
\* number of commits whose message contains "deploy success" or "deployment
\* successful" (case-insensitive).  The code does not do this: see RESULTS.
C1_CountIsQualifyingCommits ==
    RepoReadable =>
        /\ call = "deploy_count" => ret = Num(Len(Qualifying))
        /\ call = "getInfo" => ret.deployCount = Num(Len(Qualifying))

\* C2: with a readable history, getDeployStatus() is "success" exactly when
\* HEAD's message matches the pattern (as git matches it), and "failed"
\* otherwise, whatever older commits say.
C2_StatusDecidedByHead ==
    (call = "getDeployStatus" /\ RepoReadable) =>
        ret = (IF GrepTable[extendedRegexp][HEAD.msg] THEN Str(S_success)
               ELSE Str(S_failed))

\* C3: the last successful deploy is the most recent qualifying commit, and
\* commit, time, message and author all describe it; commit and time are
\* null when no commit qualifies.
C3_LastSuccessIsMostRecentQualifying ==
    RepoReadable =>
        /\ call = "getLastSuccessfulFromGit" =>
              ret = (IF Qualifying = <<>> THEN NoLastSuccess
                     ELSE [t |-> "object",
                           commit |-> Str(FullHash(Qualifying[1].id)),
                           time |-> IsoOfCommit(Qualifying[1])])
        /\ (call = "last_success_message" /\ Qualifying # <<>>) =>
              ret = Str(MessageText[Qualifying[1].msg])
        /\ (call = "last_success_author" /\ Qualifying # <<>>) =>
              ret = Str(AuthorName[MessageAuthor[Qualifying[1].msg]])
        /\ (call = "last_success_author_email" /\ Qualifying # <<>>) =>
              ret = Str(AuthorEmail[MessageAuthor[Qualifying[1].msg]])
        /\ call = "getInfo" =>
              /\ LastDeploy.commit = (IF Qualifying = <<>> THEN Null
                                      ELSE Str(FullHash(Qualifying[1].id)))
              /\ LastDeploy.time = (IF Qualifying = <<>> THEN Null
                                    ELSE IsoOfCommit(Qualifying[1]))

\* C4: no construction and no public call throws, whatever each query does
\* and whatever package.json is.
C4_NeverThrows ==
    /\ ~IsThrown(ret)
    /\ \A f \in {deployTime, version, gitCommit, gitCommitMessage, gitBranch,
                 buildTime, deployStatus} : ~IsThrown(f)

C4_Witness ==
    /\ call = "toString"
    /\ fault["log-1-grep"] = "none"
    /\ fault["show-commit"] = "text"
    /\ fault["log-1-ct"] = "empty"
    /\ fault["describe"] = "fail"

\* C5: when git was unreadable at load and still is, getInfo() reports
\* deployCount 0, status "unknown" (unless setDeployStatus stored one) and a
\* last successful deploy whose commit and time are null.
C5_UnavailableIsSentinel ==
    (call = "getInfo" /\ ~loaded.readable /\ ~RepoReadable) =>
        /\ ret.deployCount = Num(0)
        /\ ~assigned => ret.deployStatus = Str(S_unknown)
        /\ LastDeploy.commit = Null
        /\ LastDeploy.time = Null

C5_Witness ==
    call = "getInfo" /\ ~loaded.readable /\ ~RepoReadable /\ ~assigned

\* C6: getDeployStatus() is "unknown" exactly when the history is unreadable
\* (git fails: no work tree, or no commit yet); on a readable, non-empty
\* history it is "success" or "failed".
C6_UnknownIffUnavailable ==
    call = "getDeployStatus" =>
        /\ ret = Str(S_unknown) <=> ~RepoReadable
        /\ RepoReadable => ret \in {Str(S_success), Str(S_failed)}

C6_Witness ==
    /\ call = "getDeployStatus"
    /\ Len(history) = 2
    /\ gitWorks
    /\ Matching = <<>>
    /\ ret = Str(S_failed)

\* C7: in one getInfo() record, deployCount = 0 implies no last successful
\* commit, and deployCount > 0 implies the last successful commit is the hash
\* of a commit of the history.
C7_CountAgreesWithLastSuccess ==
    call = "getInfo" =>
        /\ ret.deployCount = Num(0) => LastDeploy.commit = Null
        /\ ret.deployCount.v > 0 =>
              \E i \in 1..Len(history) :
                  LastDeploy.commit = Str(FullHash(history[i].id))

C7_Witness ==
    call = "getInfo" /\ ret.deployCount = Num(2) /\ LastDeploy.commit # Null

\* The query behind a facade operation fails.
QueryFails(op) ==
    IF op = "latest_tag" THEN ~RepoReadable \/ tag = <<>> ELSE ~RepoReadable

FacadeOps == {"getGitCommit", "getGitBranch", "author_name", "author_email",
              "committer_name", "getGitLastCommitMessage", "latest_time",
              "latest_tag", "deploy_count"}

\* C8 as claimed: every facade operation whose query fails returns "unknown",
\* or 0 for the count.
C8_FailureGivesUnknown ==
    (call \in FacadeOps /\ QueryFails(call)) =>
        ret = (IF call = "deploy_count" THEN Num(0) ELSE Str(S_unknown))

\* C8 as amended: every facade operation whose query fails returns its own
\* sentinel and never throws: "unknown" for hash, branch, author name and
\* email and committer; "No commit message available" for the message; the
\* load time for the commit date; "no-tag" for the tag; 0 for the count.
C8_FailureGivesSentinel ==
    (call \in FacadeOps /\ QueryFails(call)) =>
        ret = (CASE call = "deploy_count" -> Num(0)
                 [] call = "getGitLastCommitMessage" -> Str(S_no_commit_message)
                 [] call = "latest_time" -> loaded.deployTime
                 [] call = "latest_tag" -> Str(S_no_tag)
                 [] OTHER -> Str(S_unknown))

C8_Witness == call = "latest_tag" /\ RepoReadable /\ tag = <<>>

\* C9: deployTime, version and buildTime keep the values construction gave
\* them, in the fields and through every observer, whatever happens to the
\* repository, package.json and the clock.
C9_SnapshotFixed ==
    /\ deployTime = loaded.deployTime
    /\ version = loaded.version
    /\ buildTime = loaded.buildTime
    /\ call = "latest_deploy_time" => ret = loaded.deployTime
    /\ call = "app_version" => ret = loaded.version
    /\ call = "build_time" => ret = loaded.buildTime
    /\ call = "getInfo" =>
          /\ ret.deployTime = loaded.deployTime
          /\ ret.version = loaded.version
          /\ ret.buildTime = loaded.buildTime

C9_Witness ==
    /\ call = "app_version"
    /\ now > 0
    /\ getVersion # loaded.version
    /\ history # loaded.history

\* What getDeployStatus() computed at load.
StatusAtLoad ==
    IF ~loaded.readable THEN Str(S_unknown)
    ELSE IF \E i \in 1..Len(loaded.history) :
                GrepTable[extendedRegexp][loaded.history[i].msg]
         THEN Str(S_success)
         ELSE Str(S_failed)

\* The fields of a getInfo() record that are queried at the call.
FreshFields ==
    /\ ret.deployCount = Num(Len(Matching))
    /\ Current.date = IsoOfCommit(HEAD)
    /\ Current.message = Str(MessageText[HEAD.msg])
    /\ Current.author.name = Str(AuthorName[MessageAuthor[HEAD.msg]])
    /\ Current.author.email = Str(AuthorEmail[MessageAuthor[HEAD.msg]])
    /\ Current.committer = Str(AuthorName[MessageAuthor[HEAD.msg]])
    /\ LastDeploy.commit = (IF Matching = <<>> THEN Null
                            ELSE Str(FullHash(Matching[1].id)))
    /\ LastDeploy.time = (IF Matching = <<>> THEN Null ELSE IsoOfCommit(Matching[1]))
    /\ LastDeploy.message = (IF Matching = <<>> THEN Str(S_no_successful_deploy)
                             ELSE Str(MessageText[Matching[1].msg]))
    /\ LastDeploy.author.name =
          (IF Matching = <<>> THEN Str(S_unknown)
           ELSE Str(AuthorName[MessageAuthor[Matching[1].msg]]))
    /\ LastDeploy.author.email =
          (IF Matching = <<>> THEN Str(S_unknown)
           ELSE Str(AuthorEmail[MessageAuthor[Matching[1].msg]]))
    /\ ret.git.latestTag = (IF tag = <<>> THEN Str(S_no_tag) ELSE Str(tag))

\* C10 as claimed: every repository-derived field of a getInfo() record shows
\* the repository as it is at the call, the hash, the branch and the status
\* included.
C10_GetInfoAllFresh ==
    (call = "getInfo" /\ RepoReadable) =>
        /\ FreshFields
        /\ Current.hash = Str(ShortHash(HEAD.id))
        /\ Current.branch = Str(branch)
        /\ ~assigned => ret.deployStatus = (IF Matching = <<>> THEN Str(S_failed)
                                            ELSE Str(S_success))

\* C10 as amended: date, message, author, committer, deploy count, last
\* successful deploy and latest tag show the repository as it is at the
\* call; hash, branch and status are the ones captured at load (the status
\* until setDeployStatus stores another).
C10_GetInfoFreshExceptCached ==
    (call = "getInfo" /\ RepoReadable) =>
        /\ FreshFields
        /\ Current.hash = (IF loaded.readable
                           THEN Str(ShortHash(loaded.history[1].id))
                           ELSE Str(S_unknown))
        /\ Current.branch = (IF loaded.readable THEN Str(loaded.branch)
                             ELSE Str(S_unknown))
        /\ ~assigned => ret.deployStatus = StatusAtLoad

C10_Witness ==
    /\ call = "getInfo"
    /\ RepoReadable
    /\ loaded.readable
    /\ HEAD.id # loaded.history[1].id
    /\ branch # loaded.branch
    /\ tag # <<>>
    /\ ~assigned
    /\ ret.deployStatus = Str(S_failed)
    /\ Matching # <<>>

\* The commits of a history H that git log --grep selects.
MatchingIn(H) == SelectSeq(H, LAMBDA c : GrepTable[extendedRegexp][c.msg])

\* deployCount and lastSuccessfulDeploy as one state H of the history gives
\* them.
SummaryOf(H) ==
    IF ~gitWorks \/ H = <<>>
    THEN [count |-> Num(0), commit |-> Null, time |-> Null,
          message |-> Str(S_unable_to_retrieve),
          name |-> Str(S_unknown), email |-> Str(S_unknown)]
    ELSE IF MatchingIn(H) = <<>>
    THEN [count |-> Num(0), commit |-> Null, time |-> Null,
          message |-> Str(S_no_successful_deploy),
          name |-> Str(S_unknown), email |-> Str(S_unknown)]
    ELSE [count |-> Num(Len(MatchingIn(H))),
          commit |-> Str(FullHash(MatchingIn(H)[1].id)),
          time |-> IsoOfCommit(MatchingIn(H)[1]),
          message |-> Str(MessageText[MatchingIn(H)[1].msg]),
          name |-> Str(AuthorName[MessageAuthor[MatchingIn(H)[1].msg]]),
          email |-> Str(AuthorEmail[MessageAuthor[MatchingIn(H)[1].msg]])]

\* The same fields of a record getInfo() returned.
SummaryIn(r) ==
    [count |-> r.deployCount,
     commit |-> r.git.lastSuccessfulDeploy.commit,
     time |-> r.git.lastSuccessfulDeploy.time,
     message |-> r.git.lastSuccessfulDeploy.message,
     name |-> r.git.lastSuccessfulDeploy.author.name,
     email |-> r.git.lastSuccessfulDeploy.author.email]

\* C11: the deployCount and the lastSuccessfulDeploy fields of a record
\* getInfo() returned all describe one single state of the history (commits
\* are only added, so a state is a suffix of the present history), even when
\* another process commits between the queries of the call.  The code does
\* not do this: see RESULTS.
C11_NoTornRecord ==
    call = "getInfo" =>
        \E k \in 0..Len(history) :
            SummaryIn(ret) = SummaryOf(SubSeq(history, k + 1, Len(history)))

\* The commits the override selects: the messages that contain it, compared
\* case-insensitively.
OverrideSelected ==
    SelectSeq(history,
              LAMBDA c : Contains(toLowerCase(MessageText[c.msg]),
                                  toLowerCase(trim(override))))

\* The commits C12 says are counted: those the override selects when it is
\* not blank, those the default pattern selects (as git applies it) when it is.
Selected == IF trim(override) = <<>> THEN Matching ELSE OverrideSelected

\* C12: the count and the last successful deploy are those of the commits
\* whose message matches the override when the environment provides a
\* non-blank one, and those of the default pattern when the override is empty
\* or blank.  The code does not do this: see RESULTS.
C12_OverrideReplacesPattern ==
    /\ call = "deploy_count" => ret = Num(Len(Selected))
    /\ call = "getLastSuccessfulFromGit" =>
          ret.commit = (IF Selected = <<>> THEN Null
                        ELSE Str(FullHash(Selected[1].id)))

StatusValues == {Str(S_success), Str(S_failed), Str(S_unknown)}

\* C13: the stored status, the status getter and getInfo().deployStatus are
\* always one of "success", "failed" and "unknown", whatever setDeployStatus
\* was called with.
C13_StatusIsOneOfThree ==
    /\ deployStatus \in StatusValues
    /\ get_status \in StatusValues
    /\ call \in {"status", "setDeployStatus"} => ret \in StatusValues
    /\ call = "getInfo" => ret.deployStatus \in StatusValues

\* setDeployStatus has been called, and never with a recognised word.
C13_Witness == call = "setDeployStatus" /\ ~assigned /\ RepoReadable

\* The Status line of a report, case-folded.
StatusLine(report) == toLowerCase(report.v[2][2])

\* C14: the status getter, getInfo().deployStatus and the Status line of
\* toString() (case-folded) are the same value: all three evaluated in one
\* state before a call, and each one as returned against the others.
C14_StatusPolicyConsistent ==
    /\ call = "none" =>
          LET report == toStringOf(getInfo)
          IN  /\ get_status = getInfo.deployStatus
              /\ report.v[2][1] = "Status"
              /\ StatusLine(report) = get_status.v
    /\ call = "status" => ret = getInfo.deployStatus
    /\ call = "getInfo" => ret.deployStatus = get_status
    /\ call = "toString" => StatusLine(ret) = get_status.v

\* The report is rendered while the stored status is not what git says now.
C14_Witness ==
    call = "toString" /\ RepoReadable /\ deployStatus # getDeployStatus

\* A setDeployStatus call with a recognised word is taking place.
SetRecognised ==
    \E status \in StatusArgs :
        /\ normalized(status) \in {S_success, S_failed, S_unknown}
        /\ SetDeployStatus(status)

\* C18: the status is computed at construction and kept: until
\* setDeployStatus stores a word it is the one computed at load, the status
\* getter and getInfo().deployStatus show the kept value, and that value
\* changes only in a setDeployStatus call with a recognised word, never by a
\* read or by a change of the repository.
C18_StatusCachedUntilSet ==
    [][/\ ~assigned => get_status = StatusAtLoad
       /\ ~assigned' => get_status' = StatusAtLoad'
       /\ call' = "status" => ret' = get_status'
       /\ call' = "getInfo" => ret'.deployStatus = get_status'
       /\ get_status' # get_status => SetRecognised]_vars

\* The stored "failed" is read after a commit that git's --grep selects.
C18_Witness ==
    /\ call = "status"
    /\ ret = Str(S_failed)
    /\ ~assigned
    /\ RepoReadable
    /\ Matching # <<>>

\* String(s), as C20 words the conversion.
StringConversion(s) ==
    CASE s = Null -> <<"n", "u", "l", "l">>
      [] s = Undefined -> <<"u", "n", "d", "e", "f", "i", "n", "e", "d">>
      [] s.t = "number" -> <<ToString(s.v)>>
      [] OTHER -> s.v

\* The status C20 says is stored after setDeployStatus(s).
StoredAfter(s) ==
    IF toLowerCase(trim(StringConversion(s))) \in {S_success, S_failed, S_unknown}
    THEN Str(toLowerCase(trim(StringConversion(s))))
    ELSE deployStatus

\* C20: setDeployStatus(s) stores String(s), trimmed and lower-cased, when
\* that is "success", "failed" or "unknown", and leaves the stored status
\* alone otherwise; it returns the status stored after the call and changes
\* no other field.
C20_SetDeployStatusContract ==
    [][\A status \in StatusArgs :
          SetDeployStatus(status) =>
              /\ deployStatus' = StoredAfter(status)
              /\ ret' = deployStatus'
              /\ UNCHANGED <<deployTime, version, gitCommit, gitCommitMessage,
                             gitBranch, buildTime>>]_vars

\* setDeployStatus has stored a word other than the one computed at load.
C20_Witness ==
    call = "setDeployStatus" /\ assigned /\ ret = deployStatus /\ ret # StatusAtLoad

\* The version C15 says getVersion() returns for the package.json in place.
VersionOrDefault ==
    IF /\ pkg.k = "json"
       /\ pkg.value.t = "object"
       /\ pkg.value.version.t = "string"
       /\ pkg.value.version.v # <<>>
    THEN pkg.value.version
    ELSE Str(S_default_version)

\* C15: getVersion() returns the version of package.json when the file
\* exists, parses and has a non-empty version, and "1.0.0" in every other
\* case; construction does the same and is not aborted (package.json does
\* not change in this specification, so the version field is the one of the
\* file in place).
C15_VersionOrDefault ==
    /\ version = VersionOrDefault
    /\ get_app_version = VersionOrDefault
    /\ call = "getVersion" => ret = VersionOrDefault

\* getVersion() has run on a package.json that holds the JSON text `null`.
C15_Witness ==
    call = "getVersion" /\ pkg = [k |-> "json", value |-> Null]

\* A read: a getter, getInfo() or toString().
Reads ==
    \/ \E g \in Getters : ReadGetter(g)
    \/ GetInfo
    \/ ToString_

\* C16: with the repository unchanged and no setDeployStatus call in
\* between, a getter read or getInfo() call returns what the same call
\* returned the time before, also when time has passed; and a getter read,
\* getInfo() or toString() changes no field of the instance.
C16_RepeatedReadsAgree ==
    [][/\ (call' \in Getters \cup {"getInfo"} /\ prev'.call = call') =>
              ret' = prev'.ret
       /\ Reads => UNCHANGED selfVars]_vars

\* getInfo() has returned for the second time in a row, later than the load.
C16_Witness ==
    call = "getInfo" /\ prev.call = "getInfo" /\ now > 0 /\ prev.ret = ret

\* An object as JSON.parse builds it: the properties alone.
Properties(x) == [k \in DOMAIN x \ {"t"} |-> x[k]]

\* C17: a record getInfo() returned, written as JSON text and read back, has
\* the same properties with the same values at every level.
C17_JsonRoundTrip ==
    call = "getInfo" => JSONparse(JSONstringify(ret)) = Properties(ret)

\* A record without a last successful deploy, whose author name needs
\* escaping.
C17_Witness ==
    /\ call = "getInfo"
    /\ LastDeploy.commit = Null
    /\ RepoReadable
    /\ Current.author.name = Str(AuthorName[MessageAuthor[HEAD.msg]])
    /\ Contains(Current.author.name.v, <<"\"">>)

\* The command strings that are literals of index.js.
FixedCommands ==
    {CmdRevParseShort, CmdRevParseAbbrevRef, CmdLogGrep, CmdLogGrepLast, CmdDescribe}
        \cup {CmdLogHead(f) : f \in {"ct", "s", "an", "ae", "cn"}}

\* The literals a commit hash is appended to.
FixedTemplates ==
    {CmdShowCt, CmdShowStat} \cup {CmdLogRev(f) : f \in {"s", "an", "ae"}}

\* The full hashes of the commits of the history.
Hashes == {FullHash(history[i].id) : i \in 1..Len(history)}

\* The texts a caller supplies, or the environment as a pattern.
SuppliedTexts ==
    ({StringOf(a) : a \in StatusArgs} \cup {trim(StringOf(a)) : a \in StatusArgs}
        \cup OverrideValues) \ {<<>>}

\* C19: every command a call passes to execSync is a literal of index.js, or
\* such a literal followed by the commit hash that the query right before
\* it printed; none holds a text the caller or the environment supplied,
\* and setDeployStatus passes no command.
C19_CommandsAreFixed ==
    LET cmds == Commands(call)
    IN  /\ \A i \in 1..Len(cmds) :
              \/ cmds[i] \in FixedCommands
              \/ /\ i > 1
                 /\ cmds[i - 1] = CmdLogGrepLast
                 /\ GitLogGrepLast.ok
                 /\ trim(GitLogGrepLast.out) \in Hashes
                 /\ \E t \in FixedTemplates :
                       cmds[i] = t \o trim(GitLogGrepLast.out)
        /\ \A i \in 1..Len(cmds) :
              \A x \in (SuppliedTexts \cup {branch, tag}) \ {<<>>} :
                  ~Contains(cmds[i], x)
        /\ call = "setDeployStatus" => cmds = <<>>

\* getDeployCommitStats() has run `git show --stat <hash>` on the commit its
\* first query found.
C19_Witness ==
    /\ call = "getDeployCommitStats"
    /\ Len(Commands(call)) = 2
    /\ ret.commit = Str(FullHash(Matching[1].id))
    /\ Len(history) = 2
    /\ Matching[1] # HEAD

\* The repository is as it was at load and no status has been stored.
AsLoaded ==
    /\ ~assigned
    /\ history = loaded.history
    /\ RepoReadable = loaded.readable

\* status and count agree as C21 says.
StatusAgreesWith(status, count) ==
    /\ status = Str(S_success) <=> count.v > 0
    /\ status = Str(S_failed) => (count = Num(0) /\ RepoReadable)
    /\ status = Str(S_unknown) => count = Num(0)

PairedGetters == {"commit", "branch", "latest_time", "deploy_count",
                  "last_success_commit", "last_success_time",
                  "last_success_message", "latest_tag"}

\* The field of a getInfo() record that C22 pairs with a getter.
FieldFor(g, info) ==
    CASE g = "commit" -> info.git.currentCommit.hash
      [] g = "branch" -> info.git.currentCommit.branch
      [] g = "latest_time" -> info.git.currentCommit.date
      [] g = "deploy_count" -> info.deployCount
      [] g = "last_success_commit" -> info.git.lastSuccessfulDeploy.commit
      [] g = "last_success_time" -> info.git.lastSuccessfulDeploy.time
      [] g = "last_success_message" -> info.git.lastSuccessfulDeploy.message
      [] g = "latest_tag" -> info.git.latestTag

\* getInfo() has returned right after a read of one of those getters, on
\* the same repository.
GetterThenGetInfo == call = "getInfo" /\ prev.call \in PairedGetters

\* C22 as claimed: what each of the eight getters returned equals the paired
\* field of the getInfo() record of the same repository state, in every
\* state.
C22_GettersEqualGetInfo ==
    GetterThenGetInfo => prev.ret = FieldFor(prev.call, ret)

\* C22 as amended: the same, except that last_success_commit is "unknown"
\* where the record's lastSuccessfulDeploy.commit is null (no qualifying
\* commit, or git unavailable).
C22_GettersEqualGetInfoButNull ==
    GetterThenGetInfo =>
        prev.ret = (IF prev.call = "last_success_commit" /\ LastDeploy.commit = Null
                    THEN Str(S_unknown)
                    ELSE FieldFor(prev.call, ret))

\* last_success_commit was read and getInfo() called on a readable history
\* without a qualifying commit.
C22_Witness ==
    /\ GetterThenGetInfo
    /\ prev.call = "last_success_commit"
    /\ RepoReadable
    /\ LastDeploy.commit = Null

====
